---- MODULE Spec2Model ----
(***************************************************************************)
(* Model of the summarization pipeline of                                  *)
(* backend/All models/text_summarizer.py: TextPreprocessor,                *)
(* MongoDBHandler and SummarizationPipeline,                               *)
(* of the like and bookmark toggles of backend/routes/auth.py, and of      *)
(* run_scraper (backend/scraper/aljazeera_scraper.py) with                 *)
(* save_article_to_db (backend/models/article_model.py).                   *)
(*                                                                         *)
(* Text.  Every operation of the code on article text (len, strip, split,  *)
(* ' '.join) distinguishes only whitespace from non-whitespace characters, *)
(* so a text is the run-length sequence of its characters: the entry 0 is  *)
(* ONE whitespace character and an entry n > 0 is a run of n               *)
(* non-whitespace characters.  <<3, 0, 0, 5>> is a 3-letter word, two      *)
(* blanks and a 5-letter word (10 characters).                             *)
(* Error messages are ordinary strings.                                    *)
(***************************************************************************)
EXTENDS Integers, Sequences, FiniteSets, TLC

VARIABLES
    config,           \* SummaryConfig: retry_attempts, batch_size, chunk_size
    store,            \* the collection: sequence of article documents, in natural order
    pc,               \* position of run(): Created, Fetching, Processing, Writing, Idle,
                      \* Aborted, Interrupted
    articles,         \* run(): the batch fetched in the current iteration
    tasks,            \* process_batch(): one process_article task per article of the batch
    running,          \* index of the task that holds the event loop (0: none)
    updates,          \* run(): the update records gathered for the current batch
    result,           \* run(): what bulk_update_summaries returned for the current batch
    total_processed,  \* run(): the counter of processed articles
    clock,            \* datetime.utcnow(), as a logical time
    closed,           \* whether mongo_handler.client.close() has been called
    raised,           \* the exception run() propagated to its caller ("" : none)
    fetched_sum,      \* history: sum of the sizes of the batches fetched in this run
    bulk_calls,       \* history: calls of bulk_update_summaries in the current iteration
    returned,         \* history: per article, the texts process_text has returned for it
    call,             \* TextPreprocessor: the call under study (function and arguments)
    ret,              \* TextPreprocessor: what the call returned
    users,            \* routes/auth.py: the users collection, one document per user
    requests,         \* routes/auth.py: the toggle requests being handled
    toggled,          \* history: per user, list and post, the parity of the toggles answered
    db_articles,      \* scraper: the articles collection run_scraper saves to
    scraper,          \* scraper: the position and the locals of run_scraper
    instances         \* two pipelines on one store: the position and locals of each

pipeline_vars == <<config, store, pc, articles, tasks, running, updates, result,
                   total_processed, clock, closed, raised, fetched_sum, bulk_calls,
                   returned>>
text_vars == <<call, ret>>
user_vars == <<users, requests, toggled>>
scraper_vars == <<db_articles, scraper>>

vars == <<pipeline_vars, text_vars, user_vars, scraper_vars, instances>>

(***************************************************************************)
(* Bounds of the model.                                                    *)
(***************************************************************************)
MaxArticles == 2      \* articles in the store
MaxRetry    == 2      \* largest retry_attempts tried
MaxBatch    == 2      \* largest batch_size tried
MaxTotal    == 4      \* total_processed and fetched_sum are not told apart beyond it
MaxClock    == 1      \* logical time is not told apart beyond it
MaxTextLen  == 5      \* runs in a text given to clean_text or chunk_text
MaxWord     == 2      \* longest run of a text given to chunk_text
MaxChunkSize == 3     \* largest max_chunk_size given to chunk_text
MaxUsers    == 1      \* registered users
MaxPosts    == 2      \* post identifiers
MaxRequests == 2      \* toggle requests handled at the same time
MaxLinks    == 2      \* article links the news page can list
MaxLatest   == 3      \* articles listed by the news page in one run
MaxRuns     == 2      \* runs of run_scraper
MaxInstances == 2     \* pipelines running against one store

(***************************************************************************)
(* Program constants.                                                      *)
(***************************************************************************)
MinCleanLen      == 100     \* clean_text: "Remove very short texts"
DefaultChunkSize == 1000    \* SummaryConfig.chunk_size

Min(a, b) == IF a < b THEN a ELSE b

(***************************************************************************)
(* Text helpers: Python's len, str.strip, str.split and ' '.join.          *)
(***************************************************************************)
RECURSIVE TextLen(_)
TextLen(t) ==
    IF t = <<>> THEN 0
    ELSE (IF Head(t) = 0 THEN 1 ELSE Head(t)) + TextLen(Tail(t))

RECURSIVE LStrip(_)
LStrip(t) == IF t # <<>> /\ Head(t) = 0 THEN LStrip(Tail(t)) ELSE t

RECURSIVE RStrip(_)
RStrip(t) ==
    IF t # <<>> /\ t[Len(t)] = 0 THEN RStrip(SubSeq(t, 1, Len(t) - 1)) ELSE t

Strip(t) == RStrip(LStrip(t))

\* str.split(): the maximal runs of non-whitespace characters, in order.
\* cur is the length of the word being read (0: between words).
RECURSIVE SplitFrom(_, _, _)
SplitFrom(t, cur, words) ==
    IF t = <<>> THEN (IF cur > 0 THEN Append(words, cur) ELSE words)
    ELSE IF Head(t) = 0
         THEN SplitFrom(Tail(t), 0, IF cur > 0 THEN Append(words, cur) ELSE words)
         ELSE SplitFrom(Tail(t), cur + Head(t), words)

Split(t) == SplitFrom(t, 0, <<>>)

\* ' '.join(parts): the parts with one blank between neighbours.
RECURSIVE JoinSp(_)
JoinSp(parts) ==
    IF parts = <<>> THEN <<>>
    ELSE IF Len(parts) = 1 THEN Head(parts)
    ELSE Head(parts) \o <<0>> \o JoinSp(Tail(parts))

\* A word list as the list of one-run texts ' '.join takes.
WordTexts(words) == [i \in 1..Len(words) |-> <<words[i]>>]

(***************************************************************************)
(* Article content as the document holds it.                              *)
(*   missing : the document has no "content" key                           *)
(*   str     : a string, with its text                                     *)
(*   null    : a value that is no string and has no len() (None, a number) *)
(*   list    : a value that is no string and has a len() (an array)        *)
(***************************************************************************)
Missing    == [kind |-> "missing", text |-> <<>>, n |-> 0]
StrOf(t)   == [kind |-> "str", text |-> t, n |-> 0]
Null       == [kind |-> "null", text |-> <<>>, n |-> 0]
ListOf(k)  == [kind |-> "list", text |-> <<>>, n |-> k]

\* article.get('content', ''): the default '' stands in for a missing key.
GetContent(c) == IF c.kind = "missing" THEN StrOf(<<>>) ELSE c

\* Mutant of clean_text: a text of exactly 100 characters is dropped too.
clean_text_le(v) ==
    IF v.kind # "str" THEN <<>>
    ELSE LET text == JoinSp(WordTexts(Split(Strip(v.text))))
         IN  IF TextLen(text) <= MinCleanLen THEN <<>> ELSE text

\* TextPreprocessor.clean_text
clean_text(v) ==
    IF v.kind # "str" THEN <<>>
    ELSE LET text == JoinSp(WordTexts(Split(Strip(v.text))))
         IN  IF TextLen(text) < MinCleanLen THEN <<>> ELSE text

\* TextPreprocessor.chunk_text: the loop over the words, from word i on.
RECURSIVE ChunkLoop(_, _, _, _, _, _)
ChunkLoop(words, i, max_chunk_size, chunks, current_chunk, current_size) ==
    IF i > Len(words)
    THEN IF current_chunk # <<>>
         THEN Append(chunks, JoinSp(WordTexts(current_chunk)))
         ELSE chunks
    ELSE IF current_size + words[i] > max_chunk_size
         THEN ChunkLoop(words, i + 1, max_chunk_size,
                        Append(chunks, JoinSp(WordTexts(current_chunk))),
                        <<words[i]>>, words[i])
         ELSE ChunkLoop(words, i + 1, max_chunk_size, chunks,
                        Append(current_chunk, words[i]),
                        current_size + words[i] + 1)

\* Mutant of chunk_text: the loop starts at the second word.
chunk_text_skips_first(text, max_chunk_size) ==
    ChunkLoop(Split(text), 2, max_chunk_size, <<>>, <<>>, 0)

chunk_text(text, max_chunk_size) ==
    ChunkLoop(Split(text), 1, max_chunk_size, <<>>, <<>>, 0)

(***************************************************************************)
(* Documents.  An optional field is <<>> when the document does not hold   *)
(* it and <<v>> when it holds v; a time is 0 when absent.  summary_status  *)
(* "pending" is the absent status of an article never summarized.          *)
(***************************************************************************)
None    == <<>>
Some(v) == <<v>>

NewArticle(id, c) ==
    [_id |-> id, content |-> c,
     summary |-> None, summary_status |-> "pending", summary_metadata |-> None,
     summarized_at |-> 0, last_attempt |-> 0, summary_error |-> None]

\* The contents the stored articles are drawn from.
Contents ==
    { Missing,                          \* no content key
      Null,                             \* content: null
      ListOf(2),                        \* content: an array of two elements
      StrOf(<<>>),                      \* ""
      StrOf(<<0, 50, 0, 0, 48, 0>>),    \* 102 characters, 99 once normalized
      StrOf(<<100>>),                   \* one word of 100 characters: one chunk
      StrOf(<<600, 0, 700>>) }          \* 1301 characters: two chunks

\* The summarization model is called with do_sample=False: its decoding is
\* deterministic, so the summary_text of a chunk is a function of the chunk.
\* The stub answers one word, whose length tells the chunks of the stored
\* contents apart.  A call may also raise, with one of these messages.
summarizer(chunk) == << 1 + (TextLen(chunk) \div 100) >>
ModelMessages == { "", "CUDA out of memory" }
StoreMessages == { "connection lost" }

NoLenMessage == "object of type 'NoneType' has no len()"

Configs ==
    [retry_attempts : 0..MaxRetry,
     batch_size     : 1..MaxBatch,
     chunk_size     : {DefaultChunkSize}]

(***************************************************************************)
(* process_text and process_article, one task per article of the batch.    *)
(* A task runs from one suspension point to the next without interleaving: *)
(* the model call is synchronous, the only await is asyncio.sleep(1).      *)
(***************************************************************************)
NoResult      == [kind |-> "none", val |-> <<>>, msg |-> ""]
Returned(t)   == [kind |-> "str", val |-> t, msg |-> ""]     \* process_text returned t
ReturnedNone  == [kind |-> "None", val |-> <<>>, msg |-> ""] \* process_text fell off its loop
Raised(m)     == [kind |-> "SummarizationError", val |-> <<>>, msg |-> m]

NoRecord == [id |-> 0, set |-> [summary_status |-> "none"]]

\* st: ready (created), running (inside an attempt), sleeping (in
\* asyncio.sleep), done.  calls is the history of the model invocations of
\* the task (TRUE: returned, FALSE: raised), e the message of the last
\* exception caught.
NewTask ==
    [st |-> "ready", attempt |-> 0, chunks |-> <<>>, idx |-> 0,
     summaries |-> <<>>, calls |-> <<>>, e |-> "", res |-> NoResult,
     record |-> NoRecord]

\* Mutant of SummarizationError: the message of the last failure alone.
SummarizationError_bare(msg) == Raised(msg)

\* process_text, line 186: the error raised when the last attempt failed.
SummarizationError(msg) == Raised("All retry attempts failed: " \o msg)

\* len(article.get('content', '')): defined for strings and arrays.
HasLen(c)     == GetContent(c).kind \in {"str", "list"}
ContentLen(c) ==
    IF GetContent(c).kind = "str" THEN TextLen(GetContent(c).text) ELSE GetContent(c).n

\* process_article, lines 196-211: the record of a summarized article.
SuccessRecord(article, summary, now) ==
    [id  |-> article._id,
     set |-> [summary |-> Some(summary),
              summary_status |-> "success",
              summarized_at |-> now,
              summary_metadata |->
                  Some([model |-> "facebook/bart-large-cnn", version |-> "1.0",
                        original_length |-> ContentLen(article.content),
                        summary_length |-> TextLen(summary)])]]

\* Mutant of FailedRecord: a failure also clears the stored summary.
FailedRecord_clears(article, msg, now) ==
    [id  |-> article._id,
     set |-> [summary |-> None,
              summary_status |-> "failed",
              summary_error |-> Some(msg),
              last_attempt |-> now]]

\* process_article, lines 212-223: the record of an article that failed.
FailedRecord(article, msg, now) ==
    [id  |-> article._id,
     set |-> [summary_status |-> "failed",
              summary_error |-> Some(msg),
              last_attempt |-> now]]

\* Mutant of process_article: no result of process_text is an empty summary.
process_article_none_is_empty(article, res, now) ==
    IF res.kind = "SummarizationError" THEN FailedRecord(article, res.msg, now)
    ELSE IF ~HasLen(article.content)
         THEN FailedRecord(article, NoLenMessage, now)
         ELSE SuccessRecord(article, res.val, now)

\* Mutant of process_article: a success record whatever process_text did.
process_article_always_success(article, res, now) ==
    IF ~HasLen(article.content) \/ res.kind = "None"
    THEN FailedRecord(article, NoLenMessage, now)
    ELSE SuccessRecord(article, res.val, now)

\* process_article: the record built from what process_text did.  Building
\* the success record evaluates len(content) and len(summary) inside the try
\* block: a TypeError there is caught like any other exception.
process_article(article, res, now) ==
    IF res.kind = "SummarizationError" THEN FailedRecord(article, res.msg, now)
    ELSE IF ~HasLen(article.content) \/ res.kind = "None"
         THEN FailedRecord(article, NoLenMessage, now)
         ELSE SuccessRecord(article, res.val, now)

\* Mutant of Finish: the error of another task of the batch is shared.
Finish_shared(i, t, res) ==
    LET others == { j \in 1..Len(tasks) :
                      j # i /\ tasks[j].res.kind = "SummarizationError" }
        seen   == IF others = {} THEN res ELSE tasks[CHOOSE j \in others : TRUE].res
    IN  [t EXCEPT !.st = "done", !.res = res,
                  !.record = process_article(articles[i], seen, clock)]

\* The task i once process_text has finished with res.
Finish(i, t, res) ==
    [t EXCEPT !.st = "done", !.res = res,
              !.record = process_article(articles[i], res, clock)]

\* History: the text process_text returned for the article of task i.
Remember(i, res) ==
    IF res.kind = "str"
    THEN [returned EXCEPT ![articles[i]._id] = @ \cup {res.val}]
    ELSE returned

\* Mutant of EmptySummary: an empty text is an error.
EmptySummary_raises == SummarizationError("empty text")

\* process_text, lines 159-160: an empty cleaned text is answered with "".
EmptySummary == Returned(<<>>)

\* Mutants of is_last_attempt: giving up one attempt early, and one late.
is_last_attempt_early(attempt) == attempt >= config.retry_attempts - 2
is_last_attempt_late(attempt)  == attempt = config.retry_attempts

\* process_text, line 185: whether this attempt is the last one.
is_last_attempt(attempt) == attempt = config.retry_attempts - 1

\* Mutant of NewAttempt: the summaries of the failed attempt are kept.
NewAttempt_keeps(t, chunks) ==
    [t EXCEPT !.st = "running", !.chunks = chunks, !.idx = 1]

\* process_text, lines 162-168: an attempt starts at the first chunk with
\* an empty list of summaries.
NewAttempt(t, chunks) ==
    [t EXCEPT !.st = "running", !.chunks = chunks, !.idx = 1, !.summaries = <<>>]

\* A task is scheduled: it starts process_text, or wakes from its sleep and
\* starts the next attempt.  It cleans and chunks the text; an empty text is
\* returned at once.
StartAttempt(i) ==
    /\ pc = "Processing"
    /\ running = 0
    /\ i \in 1..Len(tasks)
    /\ tasks[i].st \in {"ready", "sleeping"}
    /\ \E cleaned_text \in {clean_text(GetContent(articles[i].content))} :
       \E chunks \in {chunk_text(cleaned_text, config.chunk_size)} :
       \E res \in {IF tasks[i].attempt >= config.retry_attempts THEN ReturnedNone
                   ELSE IF cleaned_text = <<>> THEN EmptySummary
                   ELSE Returned(JoinSp(<<>>))} :
          IF /\ tasks[i].attempt < config.retry_attempts
             /\ cleaned_text # <<>>
             /\ chunks # <<>>
          THEN /\ tasks' = [tasks EXCEPT ![i] = NewAttempt(@, chunks)]
               /\ running' = i
               /\ UNCHANGED returned
          ELSE /\ tasks' = [tasks EXCEPT ![i] = Finish(i, @, res)]
               /\ running' = 0
               /\ returned' = Remember(i, res)
    /\ UNCHANGED <<text_vars, user_vars, scraper_vars, instances>>
    /\ UNCHANGED <<config, store, pc, articles, updates, result, total_processed,
                   clock, closed, raised, fetched_sum, bulk_calls>>

\* The model returns the summary_text of the current chunk.
ModelReturns(i) ==
    /\ pc = "Processing"
    /\ running = i
    /\ i \in 1..Len(tasks)
    /\ LET t == [tasks[i] EXCEPT
                    !.summaries = Append(@, summarizer(tasks[i].chunks[tasks[i].idx])),
                    !.calls = Append(@, TRUE)]
           res == Returned(JoinSp(t.summaries))
       IN  IF t.idx = Len(t.chunks)
           THEN /\ tasks' = [tasks EXCEPT ![i] = Finish(i, t, res)]
                /\ running' = 0
                /\ returned' = Remember(i, res)
           ELSE /\ tasks' = [tasks EXCEPT ![i] = [t EXCEPT !.idx = t.idx + 1]]
                /\ running' = i
                /\ UNCHANGED returned
    /\ UNCHANGED <<text_vars, user_vars, scraper_vars, instances>>
    /\ UNCHANGED <<config, store, pc, articles, updates, result, total_processed,
                   clock, closed, raised, fetched_sum, bulk_calls>>

\* The model raises an exception with message msg on the current chunk: the
\* last attempt raises SummarizationError, any other one sleeps and retries.
ModelRaises(i, msg) ==
    /\ pc = "Processing"
    /\ running = i
    /\ i \in 1..Len(tasks)
    /\ LET t == [tasks[i] EXCEPT !.calls = Append(@, FALSE), !.e = msg]
       IN  IF is_last_attempt(t.attempt)
           THEN tasks' = [tasks EXCEPT ![i] = Finish(i, t, SummarizationError(msg))]
           ELSE tasks' = [tasks EXCEPT ![i] =
                             [t EXCEPT !.st = "sleeping", !.attempt = t.attempt + 1]]
    /\ running' = 0
    /\ UNCHANGED <<text_vars, user_vars, scraper_vars, instances>>
    /\ UNCHANGED <<config, store, pc, articles, updates, result, total_processed,
                   clock, closed, raised, fetched_sum, bulk_calls, returned>>

\* Mutant of gather: the records of the failed articles are left out.
gather_successes(ts) ==
    LET all == [i \in 1..Len(ts) |-> ts[i].record]
        Ok(u) == u.set.summary_status = "success"
    IN  SelectSeq(all, Ok)

\* asyncio.gather(*tasks): the records of the tasks, in task order.
gather(ts) == [i \in 1..Len(ts) |-> ts[i].record]

\* Mutant of Gather: process_batch returns with the first task that is done.
Gather_first_done ==
    /\ pc = "Processing"
    /\ \E i \in 1..Len(tasks) : tasks[i].st = "done"
    /\ updates' = gather(tasks)
    /\ tasks' = <<>>
    /\ pc' = "Writing"
    /\ UNCHANGED <<text_vars, user_vars, scraper_vars, instances>>
    /\ UNCHANGED <<config, store, articles, running, result, total_processed,
                   clock, closed, raised, fetched_sum, bulk_calls, returned>>

\* process_batch returns once every task is done; its tasks are gone.
Gather ==
    /\ pc = "Processing"
    /\ \A i \in 1..Len(tasks) : tasks[i].st = "done"
    /\ updates' = gather(tasks)
    /\ tasks' = <<>>
    /\ pc' = "Writing"
    /\ UNCHANGED <<text_vars, user_vars, scraper_vars, instances>>
    /\ UNCHANGED <<config, store, articles, running, result, total_processed,
                   clock, closed, raised, fetched_sum, bulk_calls, returned>>

(***************************************************************************)
(* MongoDBHandler and run().                                               *)
(***************************************************************************)
\* collection.find().limit(batch_size): the first documents in natural order.
get_unsummarized_articles(batch_size) ==
    SubSeq(store, 1, Min(batch_size, Len(store)))

\* Mutant of ApplyUpdate: the filter on _id is dropped.
ApplyUpdate_any(doc, u) ==
    [f \in DOMAIN doc |-> IF f \in DOMAIN u.set THEN u.set[f] ELSE doc[f]]

\* One UpdateOne({"_id": id}, {"$set": set}) applied to a document.
ApplyUpdate(doc, u) ==
    IF doc._id # u.id THEN doc
    ELSE [f \in DOMAIN doc |-> IF f \in DOMAIN u.set THEN u.set[f] ELSE doc[f]]

\* The updates ups[k], k in applied, applied to a document.
RECURSIVE ApplyAll(_, _, _, _)
ApplyAll(doc, ups, applied, k) ==
    IF k > Len(ups) THEN doc
    ELSE ApplyAll(IF k \in applied THEN ApplyUpdate(doc, ups[k]) ELSE doc,
                  ups, applied, k + 1)

bulk_write(ups, applied) ==
    [k \in 1..Len(store) |-> ApplyAll(store[k], ups, applied, 1)]

modified_count(new_store) ==
    Cardinality({k \in 1..Len(store) : new_store[k] # store[k]})

NoBulkResult == [modified_count |-> 0, status |-> "none", error |-> ""]

\* Counters that grow for ever are not told apart beyond their bound.
Capped(n, bound) == Min(n, bound)

\* run() is called: total_processed = 0 and the loop is entered.
Run ==
    /\ pc = "Created"
    /\ pc' = "Fetching"
    /\ total_processed' = 0
    /\ UNCHANGED <<text_vars, user_vars, scraper_vars, instances>>
    /\ UNCHANGED <<config, store, articles, tasks, running, updates, result,
                   clock, closed, raised, fetched_sum, bulk_calls, returned>>

\* run(), lines 237-242: a fetch.  An empty batch breaks the loop and the
\* finally block closes the client; any other batch starts one task per article.
Fetch ==
    /\ pc = "Fetching"
    /\ articles' = get_unsummarized_articles(config.batch_size)
    /\ IF articles' = <<>>
       THEN /\ pc' = "Idle"
            /\ closed' = TRUE
            /\ UNCHANGED <<tasks, updates, result, clock, fetched_sum, bulk_calls>>
       ELSE /\ pc' = "Processing"
            /\ tasks' = [i \in 1..Len(articles') |-> NewTask]
            /\ updates' = <<>>
            /\ result' = NoBulkResult
            /\ bulk_calls' = 0
            /\ fetched_sum' = Capped(fetched_sum + Len(articles'), MaxTotal)
            /\ clock' = Capped(clock + 1, MaxClock)
            /\ UNCHANGED closed
    /\ UNCHANGED <<text_vars, user_vars, scraper_vars, instances>>
    /\ UNCHANGED <<config, store, running, total_processed, raised, returned>>

\* Mutant of FetchRaises: the error is raised again with the client left open.
FetchRaises_unclosed(msg) ==
    /\ pc = "Fetching"
    /\ pc' = "Aborted"
    /\ raised' = msg
    /\ UNCHANGED <<text_vars, user_vars, scraper_vars, instances>>
    /\ UNCHANGED <<config, store, articles, tasks, running, updates, result,
                   total_processed, clock, closed, fetched_sum, bulk_calls, returned>>

\* run(), lines 262-266: the fetch raises (the connection is lost): the error
\* is logged and raised again, the finally block closes the client.
FetchRaises(msg) ==
    /\ pc = "Fetching"
    /\ pc' = "Aborted"
    /\ raised' = msg
    /\ closed' = TRUE
    /\ UNCHANGED <<text_vars, user_vars, scraper_vars, instances>>
    /\ UNCHANGED <<config, store, articles, tasks, running, updates, result,
                   total_processed, clock, fetched_sum, bulk_calls, returned>>

\* Mutant of CountBatch: the batches are counted, not their articles.
CountBatch_by_one == Capped(total_processed + 1, MaxTotal)

\* run(), line 246: the batch is counted after its write.
CountBatch == Capped(total_processed + Len(articles), MaxTotal)

\* bulk_update_summaries, lines 62-66: the bulk write applies every update.
BulkWrite ==
    /\ pc = "Writing"
    /\ store' = bulk_write(updates, 1..Len(updates))
    /\ result' = [modified_count |-> modified_count(store'),
                  status |-> "success", error |-> ""]
    /\ bulk_calls' = bulk_calls + 1
    /\ total_processed' = CountBatch
    /\ pc' = "Fetching"
    /\ UNCHANGED <<text_vars, user_vars, scraper_vars, instances>>
    /\ UNCHANGED <<config, articles, tasks, running, updates, clock, closed,
                   raised, fetched_sum, returned>>

\* Mutant of BulkWriteRaises: the PyMongoError is not caught and aborts run().
BulkWriteRaises_propagates(applied, msg) ==
    /\ pc = "Writing"
    /\ applied \subseteq 1..Len(updates)
    /\ applied # 1..Len(updates)
    /\ store' = bulk_write(updates, applied)
    /\ pc' = "Aborted"
    /\ raised' = msg
    /\ closed' = TRUE
    /\ UNCHANGED <<text_vars, user_vars, scraper_vars, instances>>
    /\ UNCHANGED <<config, articles, tasks, running, updates, result, clock,
                   total_processed, fetched_sum, bulk_calls, returned>>

\* bulk_update_summaries, lines 67-73: the unordered bulk write raises a
\* PyMongoError after applying only the updates in applied (none of them when
\* the connection is lost); the error is returned, not raised.
BulkWriteRaises(applied, msg) ==
    /\ pc = "Writing"
    /\ applied \subseteq 1..Len(updates)
    /\ applied # 1..Len(updates)
    /\ store' = bulk_write(updates, applied)
    /\ result' = [modified_count |-> 0, status |-> "failed", error |-> msg]
    /\ bulk_calls' = bulk_calls + 1
    /\ total_processed' = CountBatch
    /\ pc' = "Fetching"
    /\ UNCHANGED <<text_vars, user_vars, scraper_vars, instances>>
    /\ UNCHANGED <<config, articles, tasks, running, updates, clock, closed,
                   raised, fetched_sum, returned>>

\* An interruption (SIGINT) arrives while run() is in its loop.  In the
\* synchronous code of run() (the fetch, the bulk write) KeyboardInterrupt is
\* caught at line 260; while run() awaits process_batch it is cancelled at
\* the await and the tasks of the batch with it.  The finally block closes the
\* client.  An interrupted bulk write has applied any part of its updates.
Interrupt(applied) ==
    /\ pc \in {"Fetching", "Processing", "Writing"}
    /\ applied \subseteq 1..Len(updates)
    /\ pc # "Writing" => applied = {}
    /\ store' = IF pc = "Writing" THEN bulk_write(updates, applied) ELSE store
    /\ pc' = "Interrupted"
    /\ tasks' = <<>>
    /\ running' = 0
    /\ raised' = IF pc = "Processing" THEN "CancelledError" ELSE raised
    /\ closed' = TRUE
    /\ UNCHANGED <<text_vars, user_vars, scraper_vars, instances>>
    /\ UNCHANGED <<config, articles, updates, result, total_processed, clock,
                   fetched_sum, bulk_calls, returned>>

(***************************************************************************)
(* Specification.                                                          *)
(***************************************************************************)
\* run_scraper before its first run.
IdleScraper ==
    [pc |-> "idle", latest_articles |-> <<>>, saved |-> {}, article |-> 0,
     existing_article |-> FALSE, runs |-> 0]

NoScraper ==
    /\ db_articles = <<>>
    /\ scraper = IdleScraper

NoCall   == [fn |-> "none", arg |-> Null, max_chunk_size |-> 0]
NoReturn == [kind |-> "none", val |-> <<>>]

Stores ==
    UNION { [1..n -> Contents] : n \in 0..MaxArticles }

PipelineInit ==
    /\ config \in Configs
    /\ \E cs \in Stores : store = [k \in 1..Len(cs) |-> NewArticle(k, cs[k])]
    /\ pc = "Created"
    /\ articles = <<>>
    /\ tasks = <<>>
    /\ running = 0
    /\ updates = <<>>
    /\ result = NoBulkResult
    /\ total_processed = 0
    /\ clock = 0
    /\ closed = FALSE
    /\ raised = ""
    /\ fetched_sum = 0
    /\ bulk_calls = 0
    /\ returned = [k \in 1..Len(store) |-> {}]

\* The pipeline alone: no call of the text functions is under study and the
\* users collection is empty.
Init ==
    /\ PipelineInit
    /\ call = NoCall
    /\ ret = NoReturn
    /\ users = <<>>
    /\ requests = <<>>
    /\ toggled = <<>>
    /\ NoScraper
    /\ instances = <<>>

Next ==
    \/ Run
    \/ Fetch
    \/ \E msg \in StoreMessages : FetchRaises(msg)
    \/ \E i \in 1..MaxBatch : StartAttempt(i)
    \/ \E i \in 1..MaxBatch : ModelReturns(i)
    \/ \E i \in 1..MaxBatch, msg \in ModelMessages : ModelRaises(i, msg)
    \/ Gather
    \/ BulkWrite
    \/ \E applied \in SUBSET (1..MaxBatch), msg \in StoreMessages :
           BulkWriteRaises(applied, msg)
    \/ \E applied \in SUBSET (1..MaxBatch) : Interrupt(applied)

Spec == Init /\ [][Next]_vars

(***************************************************************************)
(* The static methods of TextPreprocessor on their own: one call of        *)
(* clean_text or chunk_text with arguments drawn from bounded sets.  No     *)
(* pipeline is constructed.                                                *)
(***************************************************************************)
Texts(runs) == UNION { [1..n -> runs] : n \in 0..MaxTextLen }

\* chunk_text(text, max_chunk_size): texts of short words and blanks.
ChunkCalls ==
    { [fn |-> "chunk_text", arg |-> StrOf(t), max_chunk_size |-> n] :
        t \in Texts(0..MaxWord), n \in 1..MaxChunkSize }

\* clean_text(text): values that are no string, and strings of blanks and of
\* runs of 49 and 50 characters, whose lengths lie on both sides of 100.
CleanCalls ==
    { [fn |-> "clean_text", arg |-> v, max_chunk_size |-> 0] :
        v \in {Null, ListOf(2)} \cup { StrOf(t) : t \in Texts({0, 49, 50}) } }

NoPipeline ==
    /\ config = [retry_attempts |-> 3, batch_size |-> 8, chunk_size |-> DefaultChunkSize]
    /\ store = <<>>
    /\ pc = "Created"
    /\ articles = <<>>
    /\ tasks = <<>>
    /\ running = 0
    /\ updates = <<>>
    /\ result = NoBulkResult
    /\ total_processed = 0
    /\ clock = 0
    /\ closed = FALSE
    /\ raised = ""
    /\ fetched_sum = 0
    /\ bulk_calls = 0
    /\ returned = <<>>

TextInit ==
    /\ NoPipeline
    /\ call \in ChunkCalls \cup CleanCalls
    /\ ret = NoReturn
    /\ users = <<>>
    /\ requests = <<>>
    /\ toggled = <<>>
    /\ NoScraper
    /\ instances = <<>>

CallCleanText ==
    /\ call.fn = "clean_text"
    /\ ret = NoReturn
    /\ ret' = [kind |-> "str", val |-> clean_text(call.arg)]
    /\ UNCHANGED <<call, pipeline_vars, user_vars, scraper_vars, instances>>

CallChunkText ==
    /\ call.fn = "chunk_text"
    /\ ret = NoReturn
    /\ ret' = [kind |-> "list",
               val |-> chunk_text(call.arg.text, call.max_chunk_size)]
    /\ UNCHANGED <<call, pipeline_vars, user_vars, scraper_vars, instances>>

TextNext == CallCleanText \/ CallChunkText

SpecText == TextInit /\ [][TextNext]_vars

(***************************************************************************)
(* routes/auth.py: the like and bookmark toggles.  The server handles      *)
(* requests concurrently; a handler reads the user document (find_one),    *)
(* toggles the post in its copy of the list and writes the list back       *)
(* (update_one): two steps on the collection.                              *)
(***************************************************************************)
Posts  == 1..MaxPosts
Fields == {"liked_posts", "bookmarked_posts"}

\* register(): a new user has liked and bookmarked nothing.
NewUser(name) ==
    [name |-> name, liked_posts |-> <<>>, bookmarked_posts |-> <<>>]

Range(q) == { q[j] : j \in 1..Len(q) }

\* list.remove(x): the first occurrence of x is taken out.
Remove(q, x) ==
    LET first == CHOOSE j \in 1..Len(q) :
                     q[j] = x /\ \A k \in 1..(j - 1) : q[k] # x
    IN  SubSeq(q, 1, first - 1) \o SubSeq(q, first + 1, Len(q))

\* "Toggle like" / "Toggle bookmark": lines 124-127 and 182-185.
toggle(posts, post_id) ==
    IF post_id \in Range(posts) THEN Remove(posts, post_id)
    ELSE Append(posts, post_id)

IdleRequest ==
    [st |-> "idle", field |-> "", user_id |-> 0, post_id |-> 0, posts |-> <<>>]

\* A request with a valid token of user_id and a post_id arrives: the handler
\* reads the user and toggles post_id in its copy of the list.
ToggleFind(r, field, user_id, post_id) ==
    /\ requests[r].st = "idle"
    /\ requests' = [requests EXCEPT ![r] =
                       [st |-> "found", field |-> field, user_id |-> user_id,
                        post_id |-> post_id,
                        posts |-> toggle(users[user_id][field], post_id)]]
    /\ UNCHANGED <<users, toggled, pipeline_vars, text_vars, scraper_vars, instances>>

\* The handler writes its list back with $set and answers 200.
ToggleUpdate(r) ==
    /\ requests[r].st = "found"
    /\ LET q == requests[r]
       IN  /\ users' = [users EXCEPT ![q.user_id] =
                            [f \in DOMAIN @ |-> IF f = q.field THEN q.posts ELSE @[f]]]
           /\ toggled' = [toggled EXCEPT ![q.user_id][q.field][q.post_id] = ~@]
    /\ requests' = [requests EXCEPT ![r] = IdleRequest]
    /\ UNCHANGED <<pipeline_vars, text_vars, scraper_vars, instances>>

UsersInit ==
    /\ NoPipeline
    /\ call = NoCall
    /\ ret = NoReturn
    /\ users = [u \in 1..MaxUsers |-> NewUser("user")]
    /\ requests = [r \in 1..MaxRequests |-> IdleRequest]
    /\ toggled = [u \in 1..MaxUsers |-> [f \in Fields |-> [p \in Posts |-> FALSE]]]
    /\ NoScraper
    /\ instances = <<>>

UsersNext ==
    \/ \E r \in 1..MaxRequests, field \in Fields, user_id \in 1..MaxUsers,
          post_id \in Posts : ToggleFind(r, field, user_id, post_id)
    \/ \E r \in 1..MaxRequests : ToggleUpdate(r)

SpecUsers == UsersInit /\ [][UsersNext]_vars

(***************************************************************************)
(* scraper/aljazeera_scraper.py run_scraper and models/article_model.py    *)
(* save_article_to_db.  The thread pool only scrapes; the thread of        *)
(* run_scraper takes the scraped articles in their order of completion and *)
(* saves them one after the other.  app.py runs run_scraper at startup and *)
(* then once an hour.                                                      *)
(***************************************************************************)
Links == 1..MaxLinks

\* get_latest_articles(): the articles of the news page, each with its link;
\* the page may list a link more than once.
LatestArticles ==
    UNION { [1..n -> [link : Links, title : {"news"}]] : n \in 0..MaxLatest }

\* Mutant of find_one: the stored article is not found.
find_one_nothing(db, link) == FALSE

\* db.articles.find_one({'link': link}), line 4: whether an article is found.
find_one(db, link) == \E k \in 1..Len(db) : db[k].link = link

\* run_scraper is called: the news page is read; with no article the run is
\* over, otherwise the articles are handed to the thread pool.
RunScraper(latest_articles) ==
    /\ scraper.pc = "idle"
    /\ scraper.runs < MaxRuns
    /\ scraper' = [pc |-> IF latest_articles = <<>> THEN "idle" ELSE "scraping",
                   latest_articles |-> latest_articles, saved |-> {}, article |-> 0,
                   existing_article |-> FALSE, runs |-> scraper.runs + 1]
    /\ UNCHANGED <<db_articles, pipeline_vars, text_vars, user_vars, instances>>

\* as_completed yields the next scraped article j, in any order, and
\* save_article_to_db looks its link up (line 4).
SaveFind(j) ==
    /\ scraper.pc = "scraping"
    /\ j \in 1..Len(scraper.latest_articles)
    /\ j \notin scraper.saved
    /\ scraper' = [scraper EXCEPT
                      !.pc = "saving", !.article = j,
                      !.existing_article =
                          find_one(db_articles, scraper.latest_articles[j].link)]
    /\ UNCHANGED <<db_articles, pipeline_vars, text_vars, user_vars, instances>>

\* save_article_to_db, lines 6-10: the article is inserted unless one was
\* found; after the last article the run is over.
SaveInsert ==
    /\ scraper.pc = "saving"
    /\ db_articles' =
           IF ~scraper.existing_article
           THEN Append(db_articles, scraper.latest_articles[scraper.article])
           ELSE db_articles
    /\ LET saved == scraper.saved \cup {scraper.article}
       IN  scraper' = [scraper EXCEPT
                          !.saved = saved,
                          !.pc = IF saved = 1..Len(scraper.latest_articles)
                                 THEN "idle" ELSE "scraping"]
    /\ UNCHANGED <<pipeline_vars, text_vars, user_vars, instances>>

ScraperInit ==
    /\ NoPipeline
    /\ call = NoCall
    /\ ret = NoReturn
    /\ users = <<>>
    /\ requests = <<>>
    /\ toggled = <<>>
    /\ NoScraper
    /\ instances = <<>>

ScraperNext ==
    \/ \E latest_articles \in LatestArticles : RunScraper(latest_articles)
    \/ \E j \in 1..MaxLatest : SaveFind(j)
    \/ SaveInsert

SpecScraper == ScraperInit /\ [][ScraperNext]_vars

(***************************************************************************)
(* Two pipelines, each in its own process with its own model, running      *)
(* against the same collection with the same configuration.  Each goes     *)
(* through the loop of run(): fetch, process_batch, bulk write.  A         *)
(* process_batch is one step here: it gives each article of the batch one  *)
(* of the results process_text can end with.                               *)
(***************************************************************************)
NewInstance == [pc |-> "Fetching", articles |-> <<>>, updates |-> <<>>]

\* The results process_text can end with for an article.
ProcessTextResults(article) ==
    LET cleaned == clean_text(GetContent(article.content))
        chunks  == chunk_text(cleaned, config.chunk_size)
    IN  IF config.retry_attempts = 0 THEN {ReturnedNone}
        ELSE IF cleaned = <<>> THEN {EmptySummary}
        ELSE {Returned(JoinSp([j \in 1..Len(chunks) |-> summarizer(chunks[j])]))}
             \cup {SummarizationError("CUDA out of memory")}

\* Mutant of instance_fetch: articles in the batch of another instance that
\* is processing or writing are left out.
instance_fetch_unclaimed(p) ==
    LET Claimed(a) == \E q \in 1..Len(instances) :
                          /\ q # p
                          /\ instances[q].pc \in {"Processing", "Writing"}
                          /\ \E i \in 1..Len(instances[q].articles) :
                                 instances[q].articles[i]._id = a._id
        Free(a) == ~Claimed(a)
        free == SelectSeq(store, Free)
    IN  SubSeq(free, 1, Min(config.batch_size, Len(free)))

\* run(), line 237: what instance p fetches.
instance_fetch(p) == get_unsummarized_articles(config.batch_size)

\* run(), lines 237-240: instance p fetches a batch, or stops at an empty one.
InstanceFetch(p) ==
    /\ instances[p].pc = "Fetching"
    /\ \E batch \in {instance_fetch(p)} :
           instances' = [instances EXCEPT ![p] =
                            [pc |-> IF batch = <<>> THEN "Idle" ELSE "Processing",
                             articles |-> batch, updates |-> <<>>]]
    /\ UNCHANGED <<pipeline_vars, text_vars, user_vars, scraper_vars>>

\* run(), line 242: process_batch of instance p returns one record per
\* article of its batch.
InstanceProcess(p) ==
    /\ instances[p].pc = "Processing"
    /\ \E results \in [1..Len(instances[p].articles) ->
                          UNION {ProcessTextResults(store[k]) : k \in 1..Len(store)}] :
           /\ \A i \in 1..Len(instances[p].articles) :
                  results[i] \in ProcessTextResults(instances[p].articles[i])
           /\ instances' = [instances EXCEPT ![p] =
                  [@ EXCEPT !.pc = "Writing",
                            !.updates =
                                [i \in 1..Len(instances[p].articles) |->
                                    process_article(instances[p].articles[i],
                                                    results[i], MaxClock)]]]
    /\ UNCHANGED <<pipeline_vars, text_vars, user_vars, scraper_vars>>

\* run(), lines 244-246: the bulk write of instance p, and the next iteration.
InstanceWrite(p) ==
    /\ instances[p].pc = "Writing"
    /\ store' = bulk_write(instances[p].updates, 1..Len(instances[p].updates))
    /\ instances' = [instances EXCEPT ![p] = [@ EXCEPT !.pc = "Fetching"]]
    /\ UNCHANGED <<config, pc, articles, tasks, running, updates, result,
                   total_processed, clock, closed, raised, fetched_sum, bulk_calls,
                   returned>>
    /\ UNCHANGED <<text_vars, user_vars, scraper_vars>>

\* The stores of articles with no content key or with a text of one chunk,
\* and the configurations that try a text once.
InstancesInit ==
    /\ PipelineInit
    /\ config.retry_attempts = 1
    /\ \A k \in 1..Len(store) : store[k].content \in {Missing, StrOf(<<100>>)}
    /\ call = NoCall
    /\ ret = NoReturn
    /\ users = <<>>
    /\ requests = <<>>
    /\ toggled = <<>>
    /\ NoScraper
    /\ instances = [p \in 1..MaxInstances |-> NewInstance]

InstancesNext ==
    \/ \E p \in 1..MaxInstances : InstanceFetch(p)
    \/ \E p \in 1..MaxInstances : InstanceProcess(p)
    \/ \E p \in 1..MaxInstances : InstanceWrite(p)

SpecInstances == InstancesInit /\ [][InstancesNext]_vars

\* The run with no store error: every step of the run that can be taken is
\* eventually taken (the event loop runs every ready task, the model call and
\* the store calls return).
NextNoError ==
    \/ Run
    \/ Fetch
    \/ \E i \in 1..MaxBatch : StartAttempt(i)
    \/ \E i \in 1..MaxBatch : ModelReturns(i)
    \/ \E i \in 1..MaxBatch, msg \in ModelMessages : ModelRaises(i, msg)
    \/ Gather
    \/ BulkWrite

\* The runs that fetch one article at a time.
InitLive == Init /\ config.batch_size = 1

SpecLive == InitLive /\ [][NextNoError]_vars /\ WF_vars(NextNoError)

(***************************************************************************)
(* Properties.                                                             *)
(***************************************************************************)
\* What the code computes for the article of task i.
Cleaned(i) == clean_text(GetContent(articles[i].content))
Chunks(i)  == chunk_text(Cleaned(i), config.chunk_size)
ChunkSummaries(i) == [j \in 1..Len(Chunks(i)) |-> summarizer(Chunks(i)[j])]

Done(i) == i \in 1..Len(tasks) /\ tasks[i].st = "done"

\* The model failed on its first n invocations and on no later one.
FailsFirst(calls, n) ==
    /\ Len(calls) >= n
    /\ \A j \in 1..Len(calls) : calls[j] = (j > n)

AllFail(calls) == \A j \in 1..Len(calls) : ~calls[j]

Failures(calls) == Cardinality({j \in 1..Len(calls) : ~calls[j]})

Doc(id) == store[id]

\* C1 as stated: with retry_attempts = r >= 1 and a text that is non-empty
\* after cleaning, a model that fails on exactly its first r-1 invocations and
\* succeeds afterwards makes process_text return the summary after exactly r
\* model invocations.
C1_InvokedExactlyRTimes ==
    \A i \in 1..Len(tasks) :
        ( /\ Done(i)
          /\ config.retry_attempts >= 1
          /\ Cleaned(i) # <<>>
          /\ FailsFirst(tasks[i].calls, config.retry_attempts - 1) )
        => /\ tasks[i].res = Returned(JoinSp(ChunkSummaries(i)))
           /\ Len(tasks[i].calls) = config.retry_attempts

\* C1 amended: under the same conditions process_text returns the summary on
\* its r-th attempt, after r - 1 + k model invocations, k the number of chunks
\* of the cleaned text (r invocations when the text is one chunk).
C1_ReturnsOnLastAttempt ==
    \A i \in 1..Len(tasks) :
        ( /\ Done(i)
          /\ config.retry_attempts >= 1
          /\ Cleaned(i) # <<>>
          /\ FailsFirst(tasks[i].calls, config.retry_attempts - 1) )
        => /\ tasks[i].res = Returned(JoinSp(ChunkSummaries(i)))
           /\ tasks[i].attempt = config.retry_attempts - 1
           /\ Len(tasks[i].calls) = config.retry_attempts - 1 + Len(Chunks(i))

\* C1 witness: with retry_attempts = 2, a two-chunk text whose first model
\* call failed and whose two later calls succeeded has been summarized.
C1_Witness ==
    \E i \in 1..Len(tasks) :
        /\ Done(i)
        /\ config.retry_attempts = 2
        /\ Len(Chunks(i)) = 2
        /\ tasks[i].calls = <<FALSE, TRUE, TRUE>>
        /\ tasks[i].res.kind = "str"

\* C2: with retry_attempts = r >= 1 and a text that is non-empty after
\* cleaning, process_text ends by returning a string or by raising
\* SummarizationError and nothing else; when every model invocation failed it
\* raised SummarizationError with the message of the last failure after
\* exactly r invocations; and it raises only once r attempts have failed.
C2_RaisesAfterRFailures ==
    \A i \in 1..Len(tasks) :
        (Done(i) /\ config.retry_attempts >= 1 /\ Cleaned(i) # <<>>)
        => /\ tasks[i].res.kind \in {"str", "SummarizationError"}
           /\ AllFail(tasks[i].calls)
              => /\ tasks[i].res.kind = "SummarizationError"
                 /\ tasks[i].res.msg = "All retry attempts failed: " \o tasks[i].e
                 /\ Len(tasks[i].calls) = config.retry_attempts
           /\ tasks[i].res.kind = "SummarizationError"
              => /\ tasks[i].attempt = config.retry_attempts - 1
                 /\ Failures(tasks[i].calls) = config.retry_attempts

\* C2 witness: with retry_attempts = 2, both model calls failed and
\* SummarizationError was raised with the last message.
C2_Witness ==
    \E i \in 1..Len(tasks) :
        /\ Done(i)
        /\ config.retry_attempts = 2
        /\ tasks[i].calls = <<FALSE, FALSE>>
        /\ tasks[i].res = Raised("All retry attempts failed: CUDA out of memory")

\* C3 as stated: with no store error, a run eventually reaches Idle.
C3_RunReachesIdle == <>(pc = "Idle")

\* C4: the run stops at a fetch that returns the empty sequence, with no
\* model call and no write after it, and whenever the run is between two
\* batches or stopped, total_processed is the sum of the sizes of the batches
\* fetched so far.
C4_StopsAtEmptyFetch ==
    /\ [](pc \in {"Fetching", "Idle"} => total_processed = fetched_sum)
    /\ [](pc = "Idle" => articles = <<>> /\ closed /\ raised = "")
    /\ [][ (pc = "Fetching" /\ pc' \notin {"Aborted", "Interrupted"}
               /\ get_unsummarized_articles(config.batch_size) = <<>>)
           => (pc' = "Idle" /\ UNCHANGED <<store, tasks, updates, bulk_calls,
                                          total_processed>>) ]_vars
    /\ [][ pc = "Idle" => UNCHANGED vars ]_vars

\* C4 witness: a run stopped at a fetch that returned the empty sequence.
C4_Witness ==
    /\ pc = "Idle"
    /\ articles = <<>>
    /\ closed
    /\ total_processed = fetched_sum

\* C5 as stated: once the bulk write of a batch has returned, every article
\* of the batch has summary_status success or failed in the store.
C5_BatchEndsInFinalStatus ==
    (pc = "Fetching" /\ bulk_calls = 1)
    => \A i \in 1..Len(articles) :
           Doc(articles[i]._id).summary_status \in {"success", "failed"}

\* C6: an iteration with a non-empty batch calls bulk_update_summaries once,
\* after all its tasks, with one update record per fetched article, the
\* records targeting the distinct identifiers of the fetched articles.
C6_OneRecordPerArticle ==
    /\ pc \in {"Processing", "Writing"} => (bulk_calls = 0 /\ articles # <<>>)
    /\ (pc = "Fetching" /\ articles # <<>>) => bulk_calls = 1
    /\ (pc \in {"Writing", "Fetching"} /\ articles # <<>>)
       => /\ Len(updates) = Len(articles)
          /\ {updates[i].id : i \in 1..Len(updates)}
                = {articles[i]._id : i \in 1..Len(articles)}
          /\ Cardinality({updates[i].id : i \in 1..Len(updates)}) = Len(updates)

\* C6 witness: a batch of two articles, one failed and one summarized, has
\* been written by one call.
C6_Witness ==
    /\ pc = "Fetching"
    /\ bulk_calls = 1
    /\ Len(articles) = 2
    /\ Len(updates) = 2
    /\ updates[1].set.summary_status = "failed"
    /\ updates[2].set.summary_status = "success"

\* C7 as stated: when process_text returns, the record of the article sets
\* the summary, success, summarized_at and the metadata with both lengths;
\* when it raises, the record sets failed, the message and last_attempt, and
\* no summary.
C7_RecordFollowsOutcome ==
    \A i \in 1..Len(tasks) :
        (Done(i) /\ config.retry_attempts >= 1)
        => /\ tasks[i].res.kind = "str"
              => tasks[i].record =
                   [id  |-> articles[i]._id,
                    set |-> [summary |-> Some(tasks[i].res.val),
                             summary_status |-> "success",
                             summarized_at |-> clock,
                             summary_metadata |->
                                Some([model |-> "facebook/bart-large-cnn",
                                      version |-> "1.0",
                                      original_length |->
                                          ContentLen(articles[i].content),
                                      summary_length |->
                                          TextLen(tasks[i].res.val)])]]
           /\ tasks[i].res.kind = "SummarizationError"
              => tasks[i].record =
                   [id  |-> articles[i]._id,
                    set |-> [summary_status |-> "failed",
                             summary_error |-> Some(tasks[i].res.msg),
                             last_attempt |-> clock]]

\* C8 as stated: an article with summary_status success has a non-empty summary.
C8_SuccessHasNonEmptySummary ==
    \A k \in 1..Len(store) :
        store[k].summary_status = "success"
        => (store[k].summary # None /\ store[k].summary[1] # <<>>)

\* C8 amended: an article with summary_status success has a summary, which a
\* process_text call for that article returned (without exception); it is the
\* empty string when the content is empty after cleaning.
C8_SuccessSummaryWasReturned ==
    \A k \in 1..Len(store) :
        store[k].summary_status = "success"
        => /\ store[k].summary # None
           /\ store[k].summary[1] \in returned[k]
           /\ clean_text(GetContent(store[k].content)) = <<>>
              => store[k].summary[1] = <<>>

\* C8 witness: a stored article is a success with the empty summary that
\* process_text returned for it.
C8_Witness ==
    \E k \in 1..Len(store) :
        /\ store[k].summary_status = "success"
        /\ store[k].summary = Some(<<>>)
        /\ <<>> \in returned[k]

\* C9 as stated: an article whose content is empty after cleaning (empty,
\* missing, no string, too short) gets no model call and its record, and the
\* store once the record is written, say success with an empty summary.
C9_EmptyContentIsSuccess ==
    config.retry_attempts >= 1
    => /\ \A i \in 1..Len(tasks) :
              (Done(i) /\ Cleaned(i) = <<>>)
              => /\ tasks[i].calls = <<>>
                 /\ tasks[i].record.set.summary_status = "success"
                 /\ tasks[i].record.set.summary = Some(<<>>)
       /\ (pc = "Fetching" /\ result.status = "success")
          => \A i \in 1..Len(articles) :
                 Cleaned(i) = <<>>
                 => /\ Doc(articles[i]._id).summary_status = "success"
                    /\ Doc(articles[i]._id).summary = Some(<<>>)

\* C10: an article with summary_status failed carries a non-empty summary_error.
C10_FailedHasError ==
    \A k \in 1..Len(store) :
        store[k].summary_status = "failed"
        => (store[k].summary_error # None /\ store[k].summary_error[1] # "")

\* C10 witness: a stored article failed after the model raised an exception
\* with an empty message.
C10_Witness ==
    \E k \in 1..Len(store) :
        /\ store[k].summary_status = "failed"
        /\ store[k].summary_error = Some("All retry attempts failed: ")

\* C11: with retry_attempts >= 1, process_text on a text that is empty after
\* cleaning returns the empty string on its first attempt: the model was not
\* invoked, no attempt failed (so no sleep was taken) and nothing was raised.
C11_EmptyTextReturnsAtOnce ==
    \A i \in 1..Len(tasks) :
        (Done(i) /\ config.retry_attempts >= 1 /\ Cleaned(i) = <<>>)
        => /\ tasks[i].res = Returned(<<>>)
           /\ tasks[i].calls = <<>>
           /\ tasks[i].attempt = 0
           /\ tasks[i].e = ""

\* C11 witness: with retry_attempts = 2, process_text has returned "" for a
\* string of 102 characters that cleaning empties, with no model call.
C11_Witness ==
    \E i \in 1..Len(tasks) :
        /\ Done(i)
        /\ config.retry_attempts = 2
        /\ articles[i].content = StrOf(<<0, 50, 0, 0, 48, 0>>)
        /\ tasks[i].res = Returned(<<>>)
        /\ tasks[i].calls = <<>>

\* C12 as stated: a run stopped by an interruption stopped at a batch
\* boundary: it had fetched no batch yet, or the bulk write of the last batch
\* it fetched had completed.
C12_StopsAtBatchBoundary ==
    pc = "Interrupted" => (articles = <<>> \/ bulk_calls = 1)

\* C13: when the fetch raises, run() stops there: it has closed the client
\* and raised the error to its caller, and no fetch, model call or write
\* follows; the client is also closed when the run ends at an empty fetch or
\* by an interruption, and it is closed only when the run has ended.
C13_ErrorAbortsAndCloses ==
    /\ [](pc = "Aborted" => (closed /\ raised \in StoreMessages))
    /\ [](pc \in {"Idle", "Interrupted"} => closed)
    /\ [](closed => pc \in {"Idle", "Aborted", "Interrupted"})
    /\ [][ (pc = "Fetching" /\ raised' # raised)
           => (pc' = "Aborted" /\ closed' /\ raised' \in StoreMessages
               /\ UNCHANGED <<store, tasks, updates, bulk_calls>>) ]_vars
    /\ [][ (pc \in {"Aborted", "Idle", "Interrupted"}) => UNCHANGED vars ]_vars

\* C13 witness: after a first batch was written, the fetch raised: the run
\* is aborted, the client closed and the error raised to the caller.
C13_Witness ==
    /\ pc = "Aborted"
    /\ closed
    /\ raised = "connection lost"
    /\ total_processed > 0

\* C14: a bulk write that fails does not end the run: bulk_update_summaries
\* returns status failed with modified_count 0 and the error text, nothing is
\* raised to the caller of run(), the client stays open and the run goes on
\* to the next fetch.
C14_WriteErrorIsReturned ==
    /\ []( (pc = "Fetching" /\ result.status = "failed")
           => /\ result.modified_count = 0
              /\ result.error \in StoreMessages
              /\ raised = ""
              /\ ~closed )
    /\ [][ (pc = "Writing" /\ pc' # "Interrupted")
           => /\ pc' = "Fetching"
              /\ result'.status \in {"success", "failed"}
              /\ raised' = ""
              /\ ~closed' ]_vars

\* C14 witness: the bulk write of a batch failed and the run is at its next
\* fetch, with the client open and nothing raised.
C14_Witness ==
    /\ pc = "Fetching"
    /\ bulk_calls = 1
    /\ result = [modified_count |-> 0, status |-> "failed", error |-> "connection lost"]
    /\ ~closed
    /\ raised = ""

\* The words of a sequence of chunks, read in chunk order.
RECURSIVE ChunkWords(_)
ChunkWords(chunks) ==
    IF chunks = <<>> THEN <<>>
    ELSE Split(Head(chunks)) \o ChunkWords(Tail(chunks))

ChunkTextReturned == call.fn = "chunk_text" /\ ret.kind = "list"
CleanTextReturned == call.fn = "clean_text" /\ ret.kind # "none"

\* C15: the words of the chunks chunk_text returns, read in chunk order, are
\* the whitespace-delimited words of the text in their order, and every word
\* of a chunk is a whole word of the text.
C15_ChunksKeepTheWords ==
    ChunkTextReturned
    => ChunkWords(ret.val) = Split(call.arg.text)

\* C15 witness: a text of three words was cut into more than one chunk.
C15_Witness ==
    /\ ChunkTextReturned
    /\ Len(Split(call.arg.text)) = 3
    /\ Len(ret.val) >= 2
    /\ ChunkWords(ret.val) = Split(call.arg.text)

\* C16 as stated: a chunk of more than one word is at most max_chunk_size
\* characters long.
C16_ChunkWithinSize ==
    ChunkTextReturned
    => \A j \in 1..Len(ret.val) :
           Len(Split(ret.val[j])) > 1 => TextLen(ret.val[j]) <= call.max_chunk_size

\* C17 as stated: chunk_text returns no empty chunk: the empty sequence for a
\* text without words, and chunks of at least one word for any other text.
C17_NoEmptyChunk ==
    ChunkTextReturned
    => /\ Split(call.arg.text) = <<>> => ret.val = <<>>
       /\ \A j \in 1..Len(ret.val) : Split(ret.val[j]) # <<>>

\* The length of a text once trimmed and its whitespace runs collapsed to
\* single blanks: its words and one blank between neighbours.
RECURSIVE SumSeq(_)
SumSeq(q) == IF q = <<>> THEN 0 ELSE Head(q) + SumSeq(Tail(q))

NormalizedLen(t) ==
    IF Split(t) = <<>> THEN 0 ELSE SumSeq(Split(t)) + Len(Split(t)) - 1

\* out is the text t trimmed with its whitespace runs collapsed: the words
\* of t, whole, one blank between neighbours and none at the ends.
IsNormalized(out, t) ==
    /\ Len(out) = 2 * Len(Split(t)) - 1
    /\ \A j \in 1..Len(out) :
           out[j] = IF j % 2 = 1 THEN Split(t)[(j + 1) \div 2] ELSE 0

\* C18: clean_text returns a string for every input: the empty string for a
\* value that is no string and for a string whose whitespace-normalized
\* length is below 100, and the whitespace-normalized text otherwise.
C18_CleanText ==
    CleanTextReturned
    => /\ ret.kind = "str"
       /\ call.arg.kind # "str" => ret.val = <<>>
       /\ (call.arg.kind = "str" /\ NormalizedLen(call.arg.text) < 100)
          => ret.val = <<>>
       /\ (call.arg.kind = "str" /\ NormalizedLen(call.arg.text) >= 100)
          => IsNormalized(ret.val, call.arg.text)

\* C18 witness: a text of 101 characters with a doubled blank was returned
\* as its 100 normalized characters.
C18_Witness ==
    /\ CleanTextReturned
    /\ call.arg = StrOf(<<49, 0, 0, 50>>)
    /\ ret = [kind |-> "str", val |-> <<49, 0, 50>>]

\* C19 as stated: every answered toggle of a post has flipped the membership
\* of that post in the list and changed nothing else: a post is in a list
\* exactly when it was toggled an odd number of times, the lists hold no post
\* twice, and the rest of the user document is as registered.
C19_ToggleFlipsMembership ==
    \A u \in 1..Len(users) :
        /\ users[u].name = "user"
        /\ \A f \in Fields :
               /\ \A p \in Posts : (p \in Range(users[u][f])) = toggled[u][f][p]
               /\ Cardinality(Range(users[u][f])) = Len(users[u][f])

\* C20 as stated: a step of the pipeline changes the summary_status of an
\* article only from pending: no article goes from success to failed or from
\* failed to success.
C20_StatusOnlyLeavesPending ==
    [][ \A k \in 1..Len(store) :
            store'[k].summary_status # store[k].summary_status
            => store[k].summary_status = "pending" ]_vars

\* C21 as stated: with no store error, every article of the store is
\* eventually in a fetched batch.
C21_EveryArticleFetched ==
    \A k \in 1..MaxArticles :
        <>(k > Len(store) \/ \E i \in 1..Len(articles) : articles[i]._id = k)

\* C22: the tasks in flight are those of the one batch being processed; the
\* bulk write starts only from a batch whose tasks are all done, each with a
\* success or failed record, and writes those records; a batch starts only
\* from a fetch, the store is written only by the bulk write, and the next
\* fetch follows the return of the bulk write.
C22_BatchesAreSequential ==
    /\ [](pc = "Processing"
           => (Len(tasks) = Len(articles) /\ updates = <<>> /\ bulk_calls = 0))
    /\ [](pc # "Processing" => tasks = <<>>)
    /\ [][ (pc' = "Writing" /\ pc # "Writing")
           => /\ pc = "Processing"
              /\ Len(updates') = Len(tasks)
              /\ \A i \in 1..Len(tasks) :
                     /\ tasks[i].st = "done"
                     /\ tasks[i].record.set.summary_status \in {"success", "failed"}
                     /\ updates'[i] = tasks[i].record ]_vars
    /\ [][ (pc' = "Processing" /\ pc # "Processing")
           => (pc = "Fetching" /\ \A i \in 1..Len(tasks') : tasks'[i] = NewTask) ]_vars
    /\ [][ store' # store => pc = "Writing" ]_vars
    /\ [][ (pc = "Writing" /\ pc' = "Fetching") => bulk_calls' = 1 ]_vars

\* C22 witness: the second batch of a run is being processed, one of its two
\* tasks done and the other asleep, after the first batch was written.
C22_Witness ==
    /\ pc = "Processing"
    /\ total_processed = 2
    /\ Len(tasks) = 2
    /\ tasks[1].st = "done"
    /\ tasks[2].st = "sleeping"
    /\ store[1].summary_status # "pending"

\* What process_text does for an article, from its content and the outcomes
\* of its own model calls (e: the message of its last failed call).
ExpectedResult(article, calls, e) ==
    LET cleaned == clean_text(GetContent(article.content))
        chunks  == chunk_text(cleaned, config.chunk_size)
    IN  IF config.retry_attempts = 0 THEN ReturnedNone
        ELSE IF cleaned = <<>> THEN Returned(<<>>)
        ELSE IF Failures(calls) = config.retry_attempts
             THEN Raised("All retry attempts failed: " \o e)
             ELSE Returned(JoinSp([j \in 1..Len(chunks) |-> summarizer(chunks[j])]))

C24_WriteFrame ==
    [][ /\ Len(store') = Len(store)
        /\ \A k \in 1..Len(store) :
               /\ store'[k]._id = store[k]._id
               /\ store'[k].content = store[k].content
               /\ DOMAIN store'[k] = DOMAIN store[k]
               /\ store'[k] # store[k]
                  => /\ pc = "Writing"
                     /\ \E i \in 1..Len(articles) : articles[i]._id = store[k]._id
      ]_vars

\* C24 witness: of two stored articles the batch held the first: it was
\* written as failed and the second one is as it was.
C24_Witness ==
    /\ Len(store) = 2
    /\ config.batch_size = 1
    /\ bulk_calls = 1
    /\ store[1].summary_status = "failed"
    /\ store[2] = NewArticle(2, store[2].content)

\* The last n model calls of a task returned, and the call before them,
\* if there is one, raised.
LastAttemptCalls(calls, n) ==
    /\ Len(calls) >= n
    /\ \A j \in 1..Len(calls) :
           /\ j > Len(calls) - n => calls[j]
           /\ j = Len(calls) - n => ~calls[j]

\* C26: inside an attempt the summaries held are those of the chunks before
\* the current one, in chunk order, one model call each; the summary that
\* process_text returns for a non-empty text is the summaries of all chunks
\* of the last attempt joined by single blanks, with nothing of an earlier
\* attempt in it.
C26_SummaryOfLastAttempt ==
    \A i \in 1..Len(tasks) :
        /\ tasks[i].st = "running"
           => /\ tasks[i].chunks = Chunks(i)
              /\ tasks[i].idx = Len(tasks[i].summaries) + 1
              /\ \A j \in 1..Len(tasks[i].summaries) :
                     tasks[i].summaries[j] = summarizer(tasks[i].chunks[j])
              /\ LastAttemptCalls(tasks[i].calls, Len(tasks[i].summaries))
        /\ (Done(i) /\ tasks[i].res.kind = "str" /\ Cleaned(i) # <<>>)
           => /\ tasks[i].summaries = ChunkSummaries(i)
              /\ tasks[i].res.val = JoinSp(tasks[i].summaries)
              /\ LastAttemptCalls(tasks[i].calls, Len(Chunks(i)))

\* C26 witness: the first attempt on a two-chunk text summarized the first
\* chunk and failed on the second; the second attempt summarized both, and
\* the result holds two summaries.
C26_Witness ==
    \E i \in 1..Len(tasks) :
        /\ Done(i)
        /\ tasks[i].calls = <<TRUE, FALSE, TRUE, TRUE>>
        /\ Len(tasks[i].summaries) = 2
        /\ tasks[i].res = Returned(JoinSp(ChunkSummaries(i)))

\* C27: a write that leaves an article failed leaves its summary,
\* summarized_at and summary_metadata as they were, and a write that leaves
\* it a success leaves its summary_error and last_attempt as they were.
C27_UpdatesKeepOtherFields ==
    [][ \A k \in 1..Len(store) :
            store'[k] # store[k]
            => /\ store'[k].summary_status = "failed"
                  => /\ store'[k].summary = store[k].summary
                     /\ store'[k].summarized_at = store[k].summarized_at
                     /\ store'[k].summary_metadata = store[k].summary_metadata
               /\ store'[k].summary_status = "success"
                  => /\ store'[k].summary_error = store[k].summary_error
                     /\ store'[k].last_attempt = store[k].last_attempt
      ]_vars

\* C27 witness: of two articles processed twice, one is a success that holds
\* the summary_error of its earlier failure and the other is failed and holds
\* the summary of its earlier success.
C27_Witness ==
    /\ Len(store) = 2
    /\ store[1].summary_status = "success"
    /\ store[1].summary_error # None
    /\ store[2].summary_status = "failed"
    /\ store[2].summary # None

\* C28: with retry_attempts = 0 process_text makes no model call and returns
\* None, and the record of the article is failed with a non-empty error.
C28_NoAttemptIsFailed ==
    \A i \in 1..Len(tasks) :
        (Done(i) /\ config.retry_attempts = 0)
        => /\ tasks[i].res = ReturnedNone
           /\ tasks[i].calls = <<>>
           /\ tasks[i].chunks = <<>>
           /\ tasks[i].record.set.summary_status = "failed"
           /\ tasks[i].record.set.summary_error # Some("")
           /\ "summary" \notin DOMAIN tasks[i].record.set

\* C28 witness: with retry_attempts = 0 an article of 100 characters was
\* given a failed record without a model call.
C28_Witness ==
    \E i \in 1..Len(tasks) :
        /\ Done(i)
        /\ config.retry_attempts = 0
        /\ articles[i].content = StrOf(<<100>>)
        /\ tasks[i].calls = <<>>
        /\ tasks[i].record.set.summary_status = "failed"

\* C29 as stated: once the toggle requests handled concurrently have all
\* been answered, each of them has taken effect: a post is in a list of the
\* user exactly when an odd number of toggles of it were answered.
C29_BothTogglesTakeEffect ==
    (\A r \in 1..Len(requests) : requests[r].st = "idle")
    => \A u \in 1..Len(users) : \A f \in Fields : \A p \in Posts :
           (p \in Range(users[u][f])) = toggled[u][f][p]

\* C30: no two stored articles share a link; the store changes only by the
\* insert of save_article_to_db, which appends the article being saved when
\* no stored article has its link; saving an article whose link is stored
\* leaves the store as it is.
C30_LinksAreUnique ==
    /\ [](\A a, b \in 1..Len(db_articles) :
              a # b => db_articles[a].link # db_articles[b].link)
    /\ [][ db_articles' # db_articles
           => /\ scraper.pc = "saving"
              /\ \A k \in 1..Len(db_articles) :
                     db_articles[k].link
                        # scraper.latest_articles[scraper.article].link
              /\ db_articles'
                    = Append(db_articles, scraper.latest_articles[scraper.article])
         ]_vars
    /\ [][ (scraper.pc = "saving"
            /\ \E k \in 1..Len(db_articles) :
                   db_articles[k].link
                      = scraper.latest_articles[scraper.article].link)
           => db_articles' = db_articles ]_vars

\* C30 witness: the second run listed three articles, one link twice; all
\* three were saved and the store holds the two links once each.
C30_Witness ==
    /\ scraper.pc = "idle"
    /\ scraper.runs = 2
    /\ Len(scraper.latest_articles) = 3
    /\ scraper.saved = {1, 2, 3}
    /\ Len(db_articles) = 2

ArticleIds(batch) == { batch[i]._id : i \in 1..Len(batch) }

\* C25: nothing keeps an article one instance is working on from the other:
\* two instances that are processing or writing hold the same articles, and
\* an instance that is writing holds one update record for each article of
\* its batch.
C25_NothingExcludesDoubleProcessing ==
    \A p \in 1..Len(instances) :
        /\ instances[p].pc = "Writing"
           => /\ Len(instances[p].updates) = Len(instances[p].articles)
              /\ \A i \in 1..Len(instances[p].updates) :
                     instances[p].updates[i].id = instances[p].articles[i]._id
        /\ \A q \in 1..Len(instances) :
               ( /\ instances[p].pc \in {"Processing", "Writing"}
                 /\ instances[q].pc \in {"Processing", "Writing"} )
               => ArticleIds(instances[p].articles) = ArticleIds(instances[q].articles)

\* C25 witness: both instances have fetched article 1, a text of 100
\* characters, both have summarized it and both are about to write a
\* success record for it.
C25_Witness ==
    /\ Len(instances) = 2
    /\ \A p \in 1..2 :
           /\ instances[p].pc = "Writing"
           /\ instances[p].articles[1]._id = 1
           /\ instances[p].articles[1].content = StrOf(<<100>>)
           /\ instances[p].updates[1].id = 1
           /\ instances[p].updates[1].set.summary_status = "success"

====
